---- MODULE Spec2Model ----
(***************************************************************************)
(* Model of capa/features/extractors/cape/models.py: the pydantic schema   *)
(* of a CAPE sandbox report and CapeReport.from_buf, the strict decoder    *)
(* from a JSON document to the typed object graph.                         *)
(*                                                                         *)
(* A JSON string is a sequence of one-character strings, so that the hex   *)
(* conversions are computed digit by digit; object keys are TLA+ strings.  *)
(***************************************************************************)
EXTENDS Integers, Sequences, FiniteSets, TLC

\* ------------------------------------------------------------------------
\* Bounds of the explored inputs
\* ------------------------------------------------------------------------
MaxStrLen == 3      \* longest string value tried in a scalar field
MaxInt == 300       \* largest native integer tried
MaxGroups == 2      \* most per-DLL import groups in one import table
MaxCalls == 2       \* most Call records in one Process
MaxTreeDepth == 2   \* nesting of ProcessTree children in the sample report

\* ------------------------------------------------------------------------
\* JSON values (and the Python values they decode to)
\* ------------------------------------------------------------------------
JNull == [t |-> "null"]
JBool(b) == [t |-> "bool", v |-> b]
JInt(n) == [t |-> "int", v |-> n]
\* the float i + f/10
JFloat(i, f) == [t |-> "float", v |-> <<i, f>>]
JStr(s) == [t |-> "str", v |-> s]
JList(xs) == [t |-> "list", v |-> xs]
JObj(m) == [t |-> "obj", v |-> m]
PyBytes(bs) == [t |-> "bytes", v |-> bs]
PyDict(m) == [t |-> "dict", v |-> m]
PyTuple(xs) == [t |-> "tuple", v |-> xs]
PyModel(cls, vals, fset) == [t |-> "model", cls |-> cls, v |-> vals, fields_set |-> fset]

EmptyMap == [k \in {} |-> JNull]

\* outcome of a validation step: the value, or the errors with their location
Ok(val) == [ok |-> TRUE, val |-> val, errs |-> {}]
Fail(type, loc) == [ok |-> FALSE, val |-> JNull, errs |-> {[type |-> type, loc |-> loc]}]
Errs(es) == [ok |-> FALSE, val |-> JNull, errs |-> es]

\* ------------------------------------------------------------------------
\* Python's int(value, 16) and binascii.unhexlify(value)
\* ------------------------------------------------------------------------
HexDigitValue ==
  ("0" :> 0) @@ ("1" :> 1) @@ ("2" :> 2) @@ ("3" :> 3) @@ ("4" :> 4) @@
  ("5" :> 5) @@ ("6" :> 6) @@ ("7" :> 7) @@ ("8" :> 8) @@ ("9" :> 9) @@
  ("a" :> 10) @@ ("b" :> 11) @@ ("c" :> 12) @@ ("d" :> 13) @@ ("e" :> 14) @@
  ("f" :> 15) @@ ("A" :> 10) @@ ("B" :> 11) @@ ("C" :> 12) @@ ("D" :> 13) @@
  ("E" :> 14) @@ ("F" :> 15)

IsDigit(c, base) == c \in DOMAIN HexDigitValue /\ HexDigitValue[c] < base

RECURSIVE LStrip(_)
LStrip(s) == IF s # <<>> /\ Head(s) = " " THEN LStrip(Tail(s)) ELSE s

RECURSIVE RStrip(_)
RStrip(s) ==
  IF s # <<>> /\ s[Len(s)] = " " THEN RStrip(SubSeq(s, 1, Len(s) - 1)) ELSE s

\* digits separated by single underscores, at least one digit
RECURSIVE WellFormedDigits(_, _)
WellFormedDigits(s, base) ==
  /\ s # <<>>
  /\ IsDigit(s[1], base)
  /\ \/ Len(s) = 1
     \/ WellFormedDigits(Tail(s), base)
     \/ /\ Len(s) >= 3
        /\ s[2] = "_"
        /\ WellFormedDigits(SubSeq(s, 3, Len(s)), base)

RECURSIVE DigitsValue(_, _, _)
DigitsValue(s, base, acc) ==
  IF s = <<>> THEN acc
  ELSE IF Head(s) = "_" THEN DigitsValue(Tail(s), base, acc)
  ELSE DigitsValue(Tail(s), base, acc * base + HexDigitValue[Head(s)])

\* the text of an integer literal without its sign
Unsigned(body) ==
  IF body # <<>> /\ Head(body) \in {"+", "-"} THEN Tail(body) ELSE body

\* the digits of an unsigned literal: in base 16 an optional 0x / 0X prefix,
\* which may be followed by one underscore, is dropped
Unprefixed(mag, base) ==
  IF base = 16 /\ Len(mag) >= 2 /\ mag[1] = "0" /\ mag[2] \in {"x", "X"}
  THEN IF Len(mag) >= 3 /\ mag[3] = "_" THEN SubSeq(mag, 4, Len(mag))
       ELSE SubSeq(mag, 3, Len(mag))
  ELSE mag

ParseDigits(digits, negative, base) ==
  IF WellFormedDigits(digits, base)
  THEN [ok |-> TRUE,
        val |-> IF negative THEN 0 - DigitsValue(digits, base, 0)
                ELSE DigitsValue(digits, base, 0)]
  ELSE [ok |-> FALSE, val |-> 0]

ParseStripped(body, base) ==
  ParseDigits(Unprefixed(Unsigned(body), base), body # <<>> /\ Head(body) = "-", base)

\* int(s, base) for base 10 or 16: surrounding blanks, a sign, a prefix, digits
PyIntParse(s, base) == ParseStripped(RStrip(LStrip(s)), base)

RECURSIVE Unhexlify(_)
Unhexlify(s) ==
  IF s = <<>> THEN <<>>
  ELSE <<HexDigitValue[s[1]] * 16 + HexDigitValue[s[2]]>> \o Unhexlify(SubSeq(s, 3, Len(s)))

\* validate_hex_int reading the digits in base 10
validate_hex_int_decimal(value) ==
  IF value.t = "str"
  THEN LET r == PyIntParse(value.v, 10)
       IN IF r.ok THEN [ok |-> TRUE, val |-> JInt(r.val)] ELSE [ok |-> FALSE, val |-> JNull]
  ELSE [ok |-> TRUE, val |-> value]

\* def validate_hex_int(value): a str goes through int(value, 16), whose
\* ValueError is the failure; every other value is returned as it is
validate_hex_int(value) ==
  IF value.t = "str"
  THEN LET r == PyIntParse(value.v, 16)
       IN IF r.ok THEN [ok |-> TRUE, val |-> JInt(r.val)] ELSE [ok |-> FALSE, val |-> JNull]
  ELSE [ok |-> TRUE, val |-> value]

\* def validate_hex_bytes(value): a str goes through binascii.unhexlify
validate_hex_bytes(value) ==
  IF value.t = "str"
  THEN IF Len(value.v) % 2 = 0 /\ \A i \in DOMAIN value.v : IsDigit(value.v[i], 16)
       THEN [ok |-> TRUE, val |-> PyBytes(Unhexlify(value.v))]
       ELSE [ok |-> FALSE, val |-> JNull]
  ELSE [ok |-> TRUE, val |-> value]

\* ------------------------------------------------------------------------
\* Type annotations
\* ------------------------------------------------------------------------
TInt == [k |-> "int"]
TStr == [k |-> "str"]
TBool == [k |-> "bool"]
TFloat == [k |-> "float"]
TBytes == [k |-> "bytes"]
TNone == [k |-> "none"]
TAny == [k |-> "any"]
Optional(T) == [k |-> "nullable", of |-> T]
List(T) == [k |-> "list", of |-> T]
Dict(K, T) == [k |-> "dict", key |-> K, of |-> T]
Tuple(Ts) == [k |-> "tuple", of |-> Ts]
Union(Ts) == [k |-> "union", of |-> Ts]
Ref(cls) == [k |-> "model", name |-> cls]
BeforeValidator(fn, T) == [k |-> "before", fn |-> fn, of |-> T]

HexInt == BeforeValidator("validate_hex_int", TInt)
HexBytes == BeforeValidator("validate_hex_bytes", TBytes)

\* a configuration that drops the keys no field claims
model_config_ignore_extra == [extra |-> "ignore", populate_by_name |-> FALSE]

\* class Model(BaseModel): model_config = ConfigDict(extra="forbid")
model_config == [extra |-> "forbid", populate_by_name |-> FALSE]
Model == <<>>

Skip == Optional(TAny)
TODO == TNone
ListTODO == List(TNone)
DictTODO == Ref("Model")

\* a field without default that is nevertheless treated as optional
F_defaulted(name, T) == [name |-> name, alias |-> name, type |-> T, required |-> FALSE]

\* a field of a model: required unless it is given a default (always None)
F(name, T) == [name |-> name, alias |-> name, type |-> T, required |-> TRUE]
FD(name, T) == [name |-> name, alias |-> name, type |-> T, required |-> FALSE]
FA(name, alias, T) == [name |-> name, alias |-> alias, type |-> T, required |-> TRUE]

\* ------------------------------------------------------------------------
\* The entity classes
\* ------------------------------------------------------------------------
\* ImportedSymbol with a plain int address
ImportedSymbol_plain_int ==
  <<F("address", TInt),
    F("name", TStr)>>

ImportedSymbol ==
  <<F("address", HexInt),
    F("name", TStr)>>

ImportedDll ==
  <<F("dll", TStr),
    F("imports", List(Ref("ImportedSymbol")))>>

DirectoryEntry ==
  <<F("name", TStr),
    F("virtual_address", HexInt),
    F("size", HexInt)>>

Section ==
  <<F("name", TStr),
    F("raw_address", HexInt),
    F("virtual_address", HexInt),
    F("virtual_size", HexInt),
    F("size_of_data", HexInt),
    F("characteristics", TStr),
    F("characteristics_raw", HexInt),
    F("entropy", TFloat)>>

Signer ==
  <<FD("aux_sha1", Optional(TODO)),
    FD("aux_timestamp", Optional(TNone)),
    FD("aux_valid", Optional(TBool)),
    FD("aux_error", Optional(TBool)),
    FD("aux_error_desc", Optional(TStr)),
    FD("aux_signers", Optional(ListTODO))>>

Resource ==
  <<F("name", TStr),
    F("language", TStr),
    F("sublanguage", TStr),
    F("filetype", Optional(TStr)),
    F("offset", HexInt),
    F("size", HexInt),
    F("entropy", TFloat)>>

Signature ==
  <<F("alert", TBool),
    F("confidence", TInt),
    F("data", List(Dict(TStr, TAny))),
    F("description", TStr),
    F("families", List(TStr)),
    F("name", TStr),
    F("new_data", ListTODO),
    F("references", List(TStr)),
    F("severity", TInt),
    F("weight", TInt)>>

Overlay ==
  <<F("offset", HexInt),
    F("size", HexInt)>>

PE ==
  <<F("peid_signatures", TODO),
    F("imagebase", HexInt),
    F("entrypoint", HexInt),
    F("reported_checksum", HexInt),
    F("actual_checksum", HexInt),
    F("osversion", TStr),
    FD("pdbpath", Optional(TStr)),
    F("timestamp", TStr),
    F("imports", Union(<<List(Ref("ImportedDll")), Dict(TStr, Ref("ImportedDll"))>>)),
    F("imported_dll_count", TInt),
    F("imphash", TStr),
    FD("exported_dll_name", Optional(TStr)),
    F("exports", ListTODO),
    F("dirents", List(Ref("DirectoryEntry"))),
    F("sections", List(Ref("Section"))),
    FD("ep_bytes", Optional(HexBytes)),
    FD("overlay", Optional(Ref("Overlay"))),
    F("resources", List(Ref("Resource"))),
    F("icon", TODO),
    F("icon_hash", TODO),
    F("icon_fuzzy", TODO),
    FD("icon_dhash", Optional(TODO)),
    F("versioninfo", ListTODO),
    F("digital_signers", ListTODO),
    F("guest_signers", Ref("Signer"))>>

File ==
  <<F("type", TStr),
    FD("cape_type_code", Optional(TInt)),
    FD("cape_type", Optional(TStr)),
    F("name", Union(<<List(TStr), TStr>>)),
    F("path", TStr),
    F("guest_paths", Union(<<List(TStr), TStr, TNone>>)),
    FD("timestamp", Optional(TStr)),
    F("crc32", TStr),
    F("md5", TStr),
    F("sha1", TStr),
    F("sha256", TStr),
    F("sha512", TStr),
    F("sha3_384", TStr),
    F("ssdeep", TStr),
    F("tlsh", TStr),
    FD("rh_hash", Optional(TStr)),
    F("size", TInt),
    FD("pe", Optional(Ref("PE"))),
    FD("ep_bytes", Optional(HexBytes)),
    FD("entrypoint", Optional(TInt)),
    FD("data", Optional(TStr)),
    FD("strings", Optional(List(TStr))),
    FD("yara", Skip),
    FD("cape_yara", Skip),
    FD("clamav", Skip),
    FD("virustotal", Skip)>>

ProcessFile ==
  File \o
  <<F("pid", TInt),
    F("process_path", TStr),
    F("process_name", TStr),
    F("module_path", TStr),
    FD("virtual_address", Optional(HexInt)),
    FD("target_pid", Optional(TInt)),
    FD("target_path", Optional(TStr)),
    FD("target_process", Optional(TStr))>>

\* Argument with the variants of value in the other order
Argument_str_first ==
  <<F("name", TStr),
    F("value", Union(<<TStr, HexInt>>)),
    FD("pretty_value", Optional(TStr))>>

Argument ==
  <<F("name", TStr),
    F("value", Union(<<HexInt, TStr>>)),
    FD("pretty_value", Optional(TStr))>>

Call ==
  <<F("timestamp", TStr),
    F("thread_id", TInt),
    F("category", TStr),
    F("api", TStr),
    F("arguments", List(Ref("Argument"))),
    F("status", TBool),
    FA("return_", "return", HexInt),
    FD("pretty_return", Optional(TStr)),
    F("repeated", TInt),
    F("caller", HexInt),
    F("parentcaller", HexInt),
    F("id", TInt)>>

Process ==
  <<F("process_id", TInt),
    F("process_name", TStr),
    F("parent_id", TInt),
    F("module_path", TStr),
    F("first_seen", TStr),
    F("calls", List(Ref("Call"))),
    F("threads", List(TInt)),
    F("environ", Dict(TStr, TStr))>>

ProcessTree ==
  <<F("name", TStr),
    F("pid", TInt),
    F("parent_id", TInt),
    F("module_path", TStr),
    F("threads", List(TInt)),
    F("environ", Dict(TStr, TStr)),
    F("children", List(Ref("ProcessTree")))>>

EventFileData ==
  <<F("file", TStr),
    FD("pathtofile", Optional(TStr)),
    FD("moduleaddress", Optional(HexInt))>>

EventRegData ==
  <<F("regkey", TStr),
    FD("content", Optional(TStr))>>

\* EventMoveData whose from_ has a default
EventMoveData_optional_from ==
  <<[name |-> "from_", alias |-> "from", type |-> Optional(TStr), required |-> FALSE],
    FD("to", Optional(TStr))>>

EventMoveData ==
  <<FA("from_", "from", Optional(TStr)),
    FD("to", Optional(TStr))>>

EnhancedEvent ==
  <<F("event", TStr),
    F("object", TStr),
    F("timestamp", TStr),
    F("eid", TInt),
    F("data", Union(<<Ref("EventFileData"), Ref("EventRegData"), Ref("EventMoveData")>>))>>

Summary ==
  <<F("files", List(TStr)),
    F("read_files", List(TStr)),
    F("write_files", List(TStr)),
    F("delete_files", List(TStr)),
    F("keys", List(TStr)),
    F("read_keys", List(TStr)),
    F("write_keys", List(TStr)),
    F("delete_keys", List(TStr)),
    F("executed_commands", List(TStr)),
    F("resolved_apis", List(TStr)),
    F("mutexes", List(TStr)),
    F("created_services", List(TStr)),
    F("started_services", List(TStr))>>

Behavior ==
  <<F("summary", Ref("Summary")),
    F("processes", List(Ref("Process"))),
    F("processtree", List(Ref("ProcessTree"))),
    F("anomaly", List(TStr)),
    F("enhanced", List(Ref("EnhancedEvent"))),
    F("encryptedbuffers", ListTODO)>>

Host ==
  <<F("ip", TStr),
    F("country_name", TStr),
    F("hostname", TStr),
    F("inaddrarpa", TStr)>>

Domain ==
  <<F("domain", TStr),
    F("ip", TStr)>>

TcpEvent ==
  <<F("src", TStr),
    F("sport", TInt),
    F("dst", TStr),
    F("dport", TInt),
    F("offset", TInt),
    F("time", TFloat)>>

UdpEvent ==
  <<F("src", TStr),
    F("sport", TInt),
    F("dst", TStr),
    F("dport", TInt),
    F("offset", TInt),
    F("time", TFloat)>>

DnsEvent ==
  <<F("request", TStr),
    F("type", TStr),
    F("answers", ListTODO)>>

IcmpEvent ==
  <<F("src", TStr),
    F("dst", TStr),
    F("type", TInt),
    F("data", TStr)>>

Network ==
  <<FD("pcap_sha256", Optional(TStr)),
    FD("hosts", Optional(List(Ref("Host")))),
    FD("domains", Optional(List(Ref("Domain")))),
    FD("tcp", Optional(List(Ref("TcpEvent")))),
    FD("udp", Optional(List(Ref("UdpEvent")))),
    FD("icmp", Optional(List(Ref("IcmpEvent")))),
    FD("http", Optional(ListTODO)),
    FD("dns", Optional(List(Ref("DnsEvent")))),
    FD("smtp", Optional(ListTODO)),
    FD("irc", Optional(ListTODO)),
    FD("domainlookups", Optional(DictTODO)),
    FD("iplookups", Optional(DictTODO)),
    FD("http_ex", Optional(ListTODO)),
    FD("https_ex", Optional(ListTODO)),
    FD("smtp_ex", Optional(ListTODO)),
    FD("dead_hosts", Optional(List(Tuple(<<TStr, TInt>>))))>>

SuricataDnsEvent ==
  <<F("id", TInt),
    F("type", TStr),
    F("rrname", TStr),
    F("rrtype", TStr),
    F("tx_id", TInt)>>

SuricataNetworkEntry ==
  <<F("timestamp", TStr),
    F("event_type", TStr),
    F("proto", TStr),
    F("flow_id", TInt),
    F("pcap_cnt", TInt),
    F("src_ip", TStr),
    F("src_port", TInt),
    F("dest_ip", TStr),
    F("dest_port", TInt),
    F("dns", Optional(Ref("SuricataDnsEvent")))>>

Suricata ==
  <<F("alerts", ListTODO),
    F("dns", List(Ref("SuricataNetworkEntry"))),
    F("fileinfo", ListTODO),
    F("files", ListTODO),
    F("http", ListTODO),
    F("perf", ListTODO),
    F("ssh", ListTODO),
    F("tls", ListTODO),
    FD("alert_log_full_path", Skip),
    FD("dns_log_full_path", Skip),
    FD("eve_log_full_path", Skip),
    FD("file_log_full_path", Skip),
    FD("http_log_full_path", Skip),
    FD("ssh_log_full_path", Skip),
    FD("tls_log_full_path", Skip)>>

Target ==
  <<F("category", TStr),
    F("file", Ref("File"))>>

Static ==
  <<F("pe", Ref("PE")),
    FD("flare_capa", Skip)>>

CAPE ==
  <<F("payloads", List(Ref("ProcessFile"))),
    F("configs", ListTODO)>>

CapeReport ==
  <<F("target", Ref("Target")),
    FD("static", Optional(Ref("Static"))),
    FD("strings", Optional(List(TStr))),
    F("behavior", Ref("Behavior")),
    F("CAPE", Ref("CAPE")),
    F("network", Ref("Network")),
    F("suricata", Ref("Suricata")),
    F("dropped", List(Ref("File"))),
    F("procdump", List(Ref("ProcessFile"))),
    F("procmemory", ListTODO),
    FD("curtain", Optional(TODO)),
    FD("sysmon", Optional(ListTODO)),
    FD("deduplicated_shots", Skip),
    FD("info", Skip),
    FD("statistics", Skip),
    FD("ttps", Skip),
    FD("debug", Skip),
    F("signatures", List(Ref("Signature"))),
    FD("malfamily_tag", Optional(TStr)),
    F("malscore", TFloat),
    FD("detections", Optional(TStr)),
    FD("detections2pid", Optional(Dict(TInt, List(TStr)))),
    FD("virustotal", Skip)>>

Fields(cls) ==
  CASE cls = "ImportedSymbol" -> ImportedSymbol
    [] cls = "ImportedDll" -> ImportedDll
    [] cls = "DirectoryEntry" -> DirectoryEntry
    [] cls = "Section" -> Section
    [] cls = "Signer" -> Signer
    [] cls = "Resource" -> Resource
    [] cls = "Signature" -> Signature
    [] cls = "Overlay" -> Overlay
    [] cls = "PE" -> PE
    [] cls = "File" -> File
    [] cls = "ProcessFile" -> ProcessFile
    [] cls = "Argument" -> Argument
    [] cls = "Call" -> Call
    [] cls = "Process" -> Process
    [] cls = "ProcessTree" -> ProcessTree
    [] cls = "EventFileData" -> EventFileData
    [] cls = "EventRegData" -> EventRegData
    [] cls = "EventMoveData" -> EventMoveData
    [] cls = "EnhancedEvent" -> EnhancedEvent
    [] cls = "Summary" -> Summary
    [] cls = "Behavior" -> Behavior
    [] cls = "Host" -> Host
    [] cls = "Domain" -> Domain
    [] cls = "TcpEvent" -> TcpEvent
    [] cls = "UdpEvent" -> UdpEvent
    [] cls = "DnsEvent" -> DnsEvent
    [] cls = "IcmpEvent" -> IcmpEvent
    [] cls = "Network" -> Network
    [] cls = "SuricataDnsEvent" -> SuricataDnsEvent
    [] cls = "SuricataNetworkEntry" -> SuricataNetworkEntry
    [] cls = "Suricata" -> Suricata
    [] cls = "Target" -> Target
    [] cls = "Static" -> Static
    [] cls = "CAPE" -> CAPE
    [] cls = "CapeReport" -> CapeReport
    [] cls = "Model" -> Model

ClassNames ==
  {"ImportedSymbol", "ImportedDll", "DirectoryEntry", "Section", "Signer", "Resource", "Signature", "Overlay", "PE", "File", "ProcessFile", "Argument", "Call", "Process", "ProcessTree", "EventFileData", "EventRegData", "EventMoveData", "EnhancedEvent", "Summary", "Behavior", "Host", "Domain", "TcpEvent", "UdpEvent", "DnsEvent", "IcmpEvent", "Network", "SuricataDnsEvent", "SuricataNetworkEntry", "Suricata", "Target", "Static", "CAPE", "CapeReport", "Model"}
\* ------------------------------------------------------------------------
\* pydantic's validation of a JSON value against an annotation
\* (strict = the exact-type pass of a smart union; otherwise lax)
\* ------------------------------------------------------------------------
BoolStrings ==
  [true |-> {<<"1">>, <<"t">>, <<"y">>, <<"o", "n">>, <<"y", "e", "s">>, <<"t", "r", "u", "e">>},
   false |-> {<<"0">>, <<"f">>, <<"n">>, <<"o", "f", "f">>, <<"n", "o">>, <<"f", "a", "l", "s", "e">>}]

\* keys of a JSON object read as integers (Dict[int, ...])
DecimalKey ==
  ("0" :> 0) @@ ("1" :> 1) @@ ("2" :> 2) @@ ("3" :> 3) @@ ("4" :> 4) @@
  ("5" :> 5) @@ ("6" :> 6) @@ ("7" :> 7) @@ ("8" :> 8) @@ ("9" :> 9)

ValidateInt(v, strict, loc) ==
  CASE v.t = "int" -> Ok(v)
    [] v.t # "int" /\ strict -> Fail("int_type", loc)
    [] v.t = "bool" /\ ~strict -> Ok(JInt(IF v.v THEN 1 ELSE 0))
    [] v.t = "float" /\ ~strict ->
         IF v.v[2] = 0 THEN Ok(JInt(v.v[1])) ELSE Fail("int_from_float", loc)
    [] v.t = "str" /\ ~strict ->
         LET r == PyIntParse(v.v, 10)
         IN IF r.ok THEN Ok(JInt(r.val)) ELSE Fail("int_parsing", loc)
    [] OTHER -> Fail("int_type", loc)

ValidateStr(v, strict, loc) ==
  IF v.t = "str" THEN Ok(v) ELSE Fail("string_type", loc)

ValidateBool(v, strict, loc) ==
  CASE v.t = "bool" -> Ok(v)
    [] v.t # "bool" /\ strict -> Fail("bool_type", loc)
    [] v.t = "int" /\ ~strict ->
         IF v.v \in {0, 1} THEN Ok(JBool(v.v = 1)) ELSE Fail("bool_parsing", loc)
    [] v.t = "float" /\ ~strict ->
         IF v.v[1] \in {0, 1} /\ v.v[2] = 0 THEN Ok(JBool(v.v[1] = 1))
         ELSE Fail("bool_parsing", loc)
    [] v.t = "str" /\ ~strict ->
         IF v.v \in BoolStrings.true THEN Ok(JBool(TRUE))
         ELSE IF v.v \in BoolStrings.false THEN Ok(JBool(FALSE))
         ELSE Fail("bool_parsing", loc)
    [] OTHER -> Fail("bool_type", loc)

ValidateFloat(v, strict, loc) ==
  CASE v.t = "float" -> Ok(v)
    [] v.t = "int" -> Ok(JFloat(v.v, 0))
    [] v.t \notin {"float", "int"} /\ strict -> Fail("float_type", loc)
    [] v.t = "bool" /\ ~strict -> Ok(JFloat(IF v.v THEN 1 ELSE 0, 0))
    [] v.t = "str" /\ ~strict ->
         LET r == PyIntParse(v.v, 10)
         IN IF r.ok THEN Ok(JFloat(r.val, 0)) ELSE Fail("float_parsing", loc)
    [] OTHER -> Fail("float_type", loc)

\* only reached behind validate_hex_bytes, which has converted every str
ValidateBytes(v, strict, loc) ==
  IF v.t = "bytes" THEN Ok(v) ELSE Fail("bytes_type", loc)

ValidateNone(v, strict, loc) ==
  IF v.t = "null" THEN Ok(v) ELSE Fail("none_required", loc)

ValidateKey(K, key, loc) ==
  IF K.k = "int"
  THEN IF key \in DOMAIN DecimalKey
       THEN [ok |-> TRUE, val |-> DecimalKey[key], errs |-> {}]
       ELSE [ok |-> FALSE, val |-> 0, errs |-> {[type |-> "int_parsing", loc |-> loc \o <<key, "[key]">>]}]
  ELSE [ok |-> TRUE, val |-> key, errs |-> {}]

ApplyValidator(fn, v) ==
  IF fn = "validate_hex_int" THEN validate_hex_int(v) ELSE validate_hex_bytes(v)

\* the tag a union puts in the location of a variant's errors
VariantLabel(T) ==
  CASE T.k = "model" -> T.name
    [] T.k = "before" -> "function-before"
    [] OTHER -> T.k

ItemType(T, i) == IF T.k = "tuple" THEN T.of[i] ELSE T.of

\* a lookup that also reads a field under its internal name
LookupKeys_by_name(f) == <<f.alias, f.name>>

\* the keys of the input that populate a field: its alias (its name when it
\* has no alias); its name as well only under populate_by_name
LookupKeys(f) ==
  IF model_config.populate_by_name THEN <<f.alias, f.name>> ELSE <<f.alias>>

Range(s) == {s[i] : i \in DOMAIN s}

\* the keys of a mapping, in some order
RECURSIVE KeySeq(_)
KeySeq(keys) ==
  IF keys = {} THEN <<>>
  ELSE LET key == CHOOSE x \in keys : TRUE IN <<key>> \o KeySeq(keys \ {key})

\* the keys of obj that populate the field f
FoundKeys(f, obj) == SelectSeq(LookupKeys(f), LAMBDA key : key \in DOMAIN obj)

\* a value still to validate against an annotation
Work(T, v, strict, loc) == [T |-> T, v |-> v, strict |-> strict, loc |-> loc]

\* the value a validator returned, to validate against the annotated type
Converted(T, r, strict, loc) ==
  IF r.ok THEN <<Work(T.of, r.val, strict, loc)>> ELSE <<>>

\* the value given for each field of fs, to validate against the field's type
FieldWork(fs, obj, strict, loc) ==
  [i \in DOMAIN fs |->
     IF FoundKeys(fs[i], obj) # <<>>
     THEN Work(fs[i].type, obj[FoundKeys(fs[i], obj)[1]], strict,
               loc \o <<FoundKeys(fs[i], obj)[1]>>)
     ELSE Work(TAny, JNull, strict, loc)]

\* the parts of v that validating it against T validates in turn: the
\* converted value behind a validator, the items of a list or tuple, the
\* values of a mapping, the value of each declared field of a model, and for a
\* union v itself against every variant, exactly and (unless strict) laxly
Children(T, v, strict, loc) ==
  CASE T.k = "before" -> Converted(T, ApplyValidator(T.fn, v), strict, loc)
    [] T.k = "nullable" ->
         IF v.t = "null" THEN <<>> ELSE <<Work(T.of, v, strict, loc)>>
    [] T.k = "list" /\ v.t = "list" ->
         [i \in DOMAIN v.v |-> Work(T.of, v.v[i], strict, loc \o <<ToString(i - 1)>>)]
    [] T.k = "tuple" /\ v.t = "list" /\ Len(v.v) = Len(T.of) ->
         [i \in DOMAIN v.v |-> Work(ItemType(T, i), v.v[i], strict, loc \o <<ToString(i - 1)>>)]
    [] T.k = "dict" /\ v.t = "obj" ->
         LET ks == KeySeq(DOMAIN v.v)
         IN [i \in DOMAIN ks |-> Work(T.of, v.v[ks[i]], strict, loc \o <<ks[i]>>)]
    [] T.k = "union" ->
         LET n == Len(T.of)
         IN [i \in 1..(IF strict THEN n ELSE 2 * n) |->
               Work(T.of[((i - 1) % n) + 1], v, i <= n,
                    loc \o <<VariantLabel(T.of[((i - 1) % n) + 1])>>)]
    [] T.k = "model" /\ v.t = "obj" -> FieldWork(Fields(T.name), v.v, strict, loc)
    [] OTHER -> <<>>

AllOk(rs) == \A i \in DOMAIN rs : rs[i].ok
AllErrs(rs) == UNION {rs[i].errs : i \in DOMAIN rs}
Vals(rs) == [i \in DOMAIN rs |-> rs[i].val]

\* a list or a tuple from the outcomes rs of its items
ValidateItems(T, v, loc, rs) ==
  IF v.t # "list" THEN Fail(IF T.k = "list" THEN "list_type" ELSE "tuple_type", loc)
  ELSE IF T.k = "tuple" /\ Len(v.v) < Len(T.of) THEN Fail("missing", loc \o <<ToString(Len(v.v))>>)
  ELSE IF T.k = "tuple" /\ Len(v.v) > Len(T.of) THEN Fail("too_long", loc)
  ELSE IF ~AllOk(rs) THEN Errs(AllErrs(rs))
  ELSE IF T.k = "list" THEN Ok(JList(Vals(rs))) ELSE Ok(PyTuple(Vals(rs)))

\* a mapping from the outcomes rs of its values
ValidateEntries(T, v, loc, rs) ==
  IF v.t # "obj" THEN Fail("dict_type", loc)
  ELSE LET ks == KeySeq(DOMAIN v.v)
           hk == [i \in DOMAIN ks |-> ValidateKey(T.key, ks[i], loc)]
       IN IF AllOk(rs) /\ AllOk(hk)
          THEN Ok(PyDict([key \in {hk[i].val : i \in DOMAIN ks} |->
                            rs[CHOOSE i \in DOMAIN ks : hk[i].val = key].val]))
          ELSE Errs(AllErrs(rs) \cup AllErrs(hk))

\* the declared fields of a model from the outcomes rs of the values given
\* for them: an absent field is an error when required, None otherwise
ValidateFields(fs, obj, loc, rs) ==
  [i \in DOMAIN fs |->
     IF FoundKeys(fs[i], obj) # <<>> THEN rs[i]
     ELSE IF fs[i].required THEN Fail("missing", loc \o <<fs[i].alias>>)
     ELSE Ok(JNull)]

\* the keys of obj that no field of fs claims, as errors
ExtraErrors(fs, obj, loc) ==
  IF model_config.extra = "forbid"
  THEN {[type |-> "extra_forbidden", loc |-> loc \o <<key>>] :
          key \in DOMAIN obj \ UNION {Range(LookupKeys(fs[i])) : i \in DOMAIN fs}}
  ELSE {}

\* the instance of cls built from the outcomes hs of its fields
Instance(cls, fs, obj, hs) ==
  PyModel(cls,
          [name \in {fs[i].name : i \in DOMAIN fs} |->
             hs[CHOOSE i \in DOMAIN fs : fs[i].name = name].val],
          {fs[i].name : i \in {j \in DOMAIN fs : FoundKeys(fs[j], obj) # <<>>}})

\* a model validation that also rejects a Process whose calls repeat an id
BuildModel_unique_ids(cls, fs, obj, loc, hs, extra) ==
  IF ~AllOk(hs) \/ extra # {} THEN Errs(AllErrs(hs) \cup extra)
  ELSE IF cls = "Process" /\
          LET calls == Instance(cls, fs, obj, hs).v.calls.v
          IN \E i, j \in DOMAIN calls : i # j /\ calls[i].v.id = calls[j].v.id
  THEN Fail("value_error", loc \o <<"calls">>)
  ELSE Ok(Instance(cls, fs, obj, hs))

\* the instance, or the errors of the fields and of the unclaimed keys
BuildModel(cls, fs, obj, loc, hs, extra) ==
  IF AllOk(hs) /\ extra = {} THEN Ok(Instance(cls, fs, obj, hs))
  ELSE Errs(AllErrs(hs) \cup extra)

\* a model: every declared field, then the keys no field claims
ValidateModel(cls, fs, obj, loc, rs) ==
  BuildModel(cls, fs, obj, loc, ValidateFields(fs, obj, loc, rs), ExtraErrors(fs, obj, loc))

\* the variants of a union in declared order: the first whose outcome is ok
FirstMatch(rs) ==
  IF \E i \in DOMAIN rs : rs[i].ok
  THEN rs[CHOOSE i \in DOMAIN rs : rs[i].ok /\ \A j \in 1..(i - 1) : ~rs[j].ok]
  ELSE Errs(AllErrs(rs))

\* a union in pydantic's default (smart) mode: a pass over the variants that
\* accepts exact types only, then a lax pass; rs holds the exact outcomes,
\* followed unless strict by the lax ones
ValidateUnion(Ts, strict, rs) ==
  LET n == Len(Ts)
      exact == FirstMatch(SubSeq(rs, 1, n))
  IN IF exact.ok \/ strict THEN exact ELSE FirstMatch(SubSeq(rs, n + 1, 2 * n))

\* the outcome of validating v against T from the outcomes rs of its parts
Outcome(T, v, strict, loc, rs) ==
  CASE T.k = "int" -> ValidateInt(v, strict, loc)
    [] T.k = "str" -> ValidateStr(v, strict, loc)
    [] T.k = "bool" -> ValidateBool(v, strict, loc)
    [] T.k = "float" -> ValidateFloat(v, strict, loc)
    [] T.k = "bytes" -> ValidateBytes(v, strict, loc)
    [] T.k = "none" -> ValidateNone(v, strict, loc)
    [] T.k = "any" -> Ok(v)
    [] T.k = "before" -> IF Len(rs) = 0 THEN Fail("value_error", loc) ELSE rs[1]
    [] T.k = "nullable" -> IF v.t = "null" THEN Ok(v) ELSE rs[1]
    [] T.k \in {"list", "tuple"} -> ValidateItems(T, v, loc, rs)
    [] T.k = "dict" -> ValidateEntries(T, v, loc, rs)
    [] T.k = "union" -> ValidateUnion(T.of, strict, rs)
    [] T.k = "model" ->
         IF v.t # "obj" THEN Fail("model_type", loc)
         ELSE ValidateModel(T.name, Fields(T.name), v.v, loc, rs)

RECURSIVE Validate(_, _, _, _)
RECURSIVE Outcomes(_)

\* the outcome of every part, each computed once
Outcomes(kids) ==
  [i \in DOMAIN kids |-> Validate(kids[i].T, kids[i].v, kids[i].strict, kids[i].loc)] \o <<>>

Validate(T, v, strict, loc) ==
  Outcome(T, v, strict, loc, Outcomes(Children(T, v, strict, loc)))

\* CapeReport.from_buf: cls.model_validate_json(buf); a buffer that is not
\* JSON text fails before any field is looked at
Malformed == [t |-> "malformed"]

from_buf(buf) ==
  IF buf.t = "malformed" THEN Fail("json_invalid", <<>>)
  ELSE Validate(Ref("CapeReport"), buf, FALSE, <<>>)

\* ------------------------------------------------------------------------
\* Input documents: a report that populates every declared field, and
\* documents that differ from it at one place
\* ------------------------------------------------------------------------
RECURSIVE Sample(_, _)
RECURSIVE SampleFields(_, _, _, _)
RECURSIVE SampleObject(_, _)

\* an object with every field of fs[lo..hi] under the key that populates it
SampleFields(fs, lo, hi, depth) ==
  IF lo > hi THEN EmptyMap
  ELSE IF lo = hi THEN (fs[lo].alias :> Sample(fs[lo].type, depth))
  ELSE SampleFields(fs, lo, (lo + hi) \div 2, depth) @@
       SampleFields(fs, (lo + hi) \div 2 + 1, hi, depth)

\* a value the annotation T accepts; depth bounds the nesting of ProcessTree
Sample(T, depth) ==
  CASE T.k = "int" -> JInt(1)
    [] T.k = "str" -> JStr(<<"a">>)
    [] T.k = "bool" -> JBool(TRUE)
    [] T.k = "float" -> JFloat(1, 5)
    [] T.k = "none" -> JNull
    [] T.k = "any" -> JObj([opaque |-> JInt(1)])
    [] T.k = "before" -> IF T.fn = "validate_hex_int" THEN JStr(<<"1", "f">>) ELSE JStr(<<"0", "f">>)
    [] T.k = "nullable" -> Sample(T.of, depth)
    [] T.k = "list" ->
         IF T.of.k = "none" \/ (T.of.k = "model" /\ T.of.name = "ProcessTree" /\ depth = 0)
         THEN JList(<<>>)
         ELSE JList(<<Sample(T.of, depth)>>)
    [] T.k = "tuple" -> JList([i \in DOMAIN T.of |-> Sample(T.of[i], depth)])
    [] T.k = "dict" -> JObj("0" :> Sample(T.of, depth))
    [] T.k = "union" -> Sample(T.of[1], depth)
    [] T.k = "model" ->
         SampleObject(Fields(T.name), IF T.name = "ProcessTree" THEN depth - 1 ELSE depth)

SampleObject(fs, depth) == JObj(SampleFields(fs, 1, Len(fs), depth))

SampleReport == Sample(Ref("CapeReport"), MaxTreeDepth)

\* the places of a value v that the annotation T describes: the path, the
\* kind of annotation found there, and the class or item kind it names
Site(path, T, nullable) ==
  [path |-> path, k |-> T.k, nullable |-> nullable,
   name |-> IF T.k = "model" THEN T.name ELSE "",
   item |-> IF T.k = "list" THEN T.of.k ELSE ""]

RECURSIVE Sites(_, _, _, _)
RECURSIVE MemberSites(_, _, _)

\* the places below an object with the fields fs
MemberSites(fs, obj, path) ==
  UNION {IF fs[i].alias \in DOMAIN obj
         THEN Sites(fs[i].type, obj[fs[i].alias], path \o <<fs[i].alias>>, FALSE)
         ELSE {} : i \in DOMAIN fs}

Sites(T, v, path, nullable) ==
  CASE T.k = "nullable" -> Sites(T.of, v, path, TRUE)
    [] T.k = "union" -> Sites(T.of[1], v, path, nullable)
    [] T.k = "list" /\ v.t = "list" ->
         {Site(path, T, nullable)} \cup
         UNION {Sites(T.of, v.v[i], path \o <<ToString(i - 1)>>, FALSE) : i \in DOMAIN v.v}
    [] T.k = "model" /\ v.t = "obj" ->
         {Site(path, T, nullable)} \cup MemberSites(Fields(T.name), v.v, path)
    [] OTHER -> {Site(path, T, nullable)}

ReportSites == Sites(Ref("CapeReport"), SampleReport, <<>>, FALSE)

\* the declared fields found in the sample report: the object's path, the
\* class, the key and whether the field is required
DeclaredAt(s, fs) ==
  {[path |-> s.path, cls |-> s.name, key |-> fs[i].alias,
    name |-> fs[i].name, required |-> fs[i].required] : i \in DOMAIN fs}

FieldSites == UNION {DeclaredAt(s, Fields(s.name)) : s \in {x \in ReportSites : x.k = "model"}}

IndexOf(xs, key) == CHOOSE i \in DOMAIN xs : ToString(i - 1) = key

RECURSIVE Get(_, _)
Get(v, path) ==
  IF path = <<>> THEN v
  ELSE IF v.t \in {"list", "tuple"} THEN Get(v.v[IndexOf(v.v, Head(path))], Tail(path))
  ELSE Get(v.v[Head(path)], Tail(path))

\* v with the value at path replaced by new
RECURSIVE Put(_, _, _)
Put(v, path, new) ==
  IF path = <<>> THEN new
  ELSE IF v.t = "list"
  THEN JList([i \in DOMAIN v.v |->
                IF i = IndexOf(v.v, Head(path)) THEN Put(v.v[i], Tail(path), new) ELSE v.v[i]])
  ELSE [t |-> v.t,
        v |-> (Head(path) :> Put(IF Head(path) \in DOMAIN v.v THEN v.v[Head(path)] ELSE JNull,
                                  Tail(path), new)) @@ v.v]

\* the object v without the key
Without(v, key) == JObj([x \in DOMAIN v.v \ {key} |-> v.v[x]])

Remove(v, path, key) == Put(v, path, Without(Get(v, path), key))

\* ------------------------------------------------------------------------
\* The inputs tried
\* ------------------------------------------------------------------------
Chars == {"0", "1", "f", "x", "g", "-", "_", " "}

RECURSIVE Strings(_)
Strings(n) ==
  IF n = 0 THEN {<<>>}
  ELSE Strings(n - 1) \cup {Append(s, c) : s \in Strings(n - 1), c \in Chars}

\* the base-16 digit string of n >= 0
HexChars == <<"0", "1", "2", "3", "4", "5", "6", "7", "8", "9", "a", "b", "c", "d", "e", "f">>

RECURSIVE ToHexString(_)
ToHexString(n) ==
  IF n < 16 THEN <<HexChars[n + 1]>>
  ELSE Append(ToHexString(n \div 16), HexChars[(n % 16) + 1])

\* values of the JSON types that are neither integer nor string
OtherTyped ==
  {JNull, JBool(TRUE), JBool(FALSE), JFloat(2, 0), JFloat(2, 5),
   JList(<<>>), JList(<<JInt(1)>>), JObj(EmptyMap), JObj([a |-> JInt(1)])}

\* contents tried in a canary field
CanaryContents ==
  {JNull, JList(<<>>), JList(<<JNull>>), JList(<<JInt(1)>>), JStr(<<"d", "e", "a", "d">>),
   JInt(1), JBool(FALSE), JObj(EmptyMap), JObj([a |-> JInt(1)])}

IsCanarySite(s) ==
  \/ s.k = "none"
  \/ s.k = "list" /\ s.item = "none"
  \/ s.k = "model" /\ s.name = "Model"

CanarySites == {s \in ReportSites : IsCanarySite(s)}
ModelSites == {s \in ReportSites : s.k = "model"}

\* keys that no class declares as the key of a field
ExtraKeys == {"extra_debug_field", "return_", "from_"}

CallPath == <<"behavior", "processes", "0", "calls", "0">>
CallsPath == <<"behavior", "processes", "0", "calls">>
EventDataPath == <<"behavior", "enhanced", "0", "data">>
ImportsPath == <<"static", "pe", "imports">>

\* hex texts of return values, with the integers they denote
ReturnTexts ==
  {[text |-> <<"0", "x", "1">>, value |-> 1],
   [text |-> <<"f", "f">>, value |-> 255],
   [text |-> <<"1", "0">>, value |-> 16]}

\* imported symbols, with the integers their address texts denote
SymbolPool ==
  {[name |-> <<"a">>, text |-> <<"1", "f">>, value |-> 31],
   [name |-> <<"b">>, text |-> <<"0", "x", "1", "0">>, value |-> 16]}

RECURSIVE SeqsUpTo(_, _)
SeqsUpTo(S, n) ==
  IF n = 0 THEN {<<>>}
  ELSE SeqsUpTo(S, n - 1) \cup {Append(s, x) : s \in SeqsUpTo(S, n - 1), x \in S}

DllKeys == <<"kernel32", "user32", "ntdll", "advapi32">>

SymbolJson(sym) == JObj([address |-> JStr(sym.text), name |-> JStr(sym.name)])

\* the per-DLL import group of a sequence of symbols
GroupJson(syms) ==
  JObj([dll |-> JStr(<<"d">>), imports |-> JList([i \in DOMAIN syms |-> SymbolJson(syms[i])])])

ImportsAsList(groups) == JList([i \in DOMAIN groups |-> GroupJson(groups[i])])
ImportsAsDict(groups) == JObj([key \in {DllKeys[i] : i \in DOMAIN groups} |->
                                GroupJson(groups[CHOOSE i \in DOMAIN groups : DllKeys[i] = key])])

\* keys an enhanced-event payload may carry, with the value given to each
EventKeys == {"file", "pathtofile", "regkey", "content", "from", "to"}
EventObject(keys, fromNull) ==
  JObj([key \in keys |-> IF key = "from" /\ fromNull THEN JNull ELSE JStr(<<"a">>)])

SampleCall == Get(SampleReport, CallPath)
CallWithId(id) == Put(SampleCall, <<"id">>, JInt(id))

\* ------------------------------------------------------------------------
\* The decoder as a state machine: one call at a time, each call a pure
\* function of its input
\* ------------------------------------------------------------------------
VARIABLES call, fixture, input, output
vars == <<call, fixture, input, output>>

Init ==
  /\ call = "none"
  /\ fixture = [kind |-> "none"]
  /\ input = JNull
  /\ output = Ok(JNull)

\* a HexInt field given the native integer n
ValidateHexIntNative ==
  /\ call = "none"
  /\ \E n \in 0..MaxInt :
       /\ call' = "HexInt"
       /\ fixture' = [kind |-> "native_int", n |-> n]
       /\ input' = JInt(n)
       /\ output' = Validate(HexInt, JInt(n), FALSE, <<>>)

\* a HexInt field given the base-16 digit string of n
ValidateHexIntDigits ==
  /\ call = "none"
  /\ \E n \in 0..MaxInt :
       /\ call' = "HexInt"
       /\ fixture' = [kind |-> "hex_digits", n |-> n]
       /\ input' = JStr(ToHexString(n))
       /\ output' = Validate(HexInt, JStr(ToHexString(n)), FALSE, <<>>)

\* a HexInt field given any short text
ValidateHexIntText ==
  /\ call = "none"
  /\ \E s \in Strings(MaxStrLen) :
       /\ call' = "HexInt"
       /\ fixture' = [kind |-> "hex_text"]
       /\ input' = JStr(s)
       /\ output' = Validate(HexInt, JStr(s), FALSE, <<>>)

\* a HexInt field given a value that is neither an integer nor a string
ValidateHexIntOther ==
  /\ call = "none"
  /\ \E v \in OtherTyped :
       /\ call' = "HexInt"
       /\ fixture' = [kind |-> "hex_other"]
       /\ input' = v
       /\ output' = Validate(HexInt, v, FALSE, <<>>)

\* an Argument whose value is an integer, a text or a value of another type
ValidateArgument ==
  /\ call = "none"
  /\ \E v \in {JInt(n) : n \in 0..MaxInt} \cup {JStr(s) : s \in Strings(MaxStrLen)} \cup OtherTyped :
       LET doc == JObj([name |-> JStr(<<"a">>), value |-> v]) IN
       /\ call' = "Argument"
       /\ fixture' = [kind |-> "argument", value |-> v]
       /\ input' = doc
       /\ output' = Validate(Ref("Argument"), doc, FALSE, <<>>)

\* an object of one class with every field populated and one more key
ModelValidateExtraKey ==
  /\ call = "none"
  /\ \E cls \in ClassNames, key \in ExtraKeys :
       LET doc == Put(Sample(Ref(cls), MaxTreeDepth), <<key>>, JInt(1)) IN
       /\ call' = "model_validate"
       /\ fixture' = [kind |-> "extra_key", path |-> <<>>, key |-> key, cls |-> cls]
       /\ input' = doc
       /\ output' = Validate(Ref(cls), doc, FALSE, <<>>)

\* from_buf on the fully populated report, or on a buffer that is not JSON
FromBufSample ==
  /\ call = "none"
  /\ \E buf \in {SampleReport, Malformed} :
       /\ call' = "from_buf"
       /\ fixture' = [kind |-> "sample"]
       /\ input' = buf
       /\ output' = from_buf(buf)

\* from_buf on the report with one more key in one of its entity objects
FromBufExtraKey ==
  /\ call = "none"
  /\ \E s \in ModelSites, key \in ExtraKeys :
       LET doc == Put(SampleReport, s.path \o <<key>>, JInt(1)) IN
       /\ call' = "from_buf"
       /\ fixture' = [kind |-> "extra_key", path |-> s.path, key |-> key, cls |-> s.name]
       /\ input' = doc
       /\ output' = from_buf(doc)

\* from_buf on the report with one declared field left out
FromBufMissing ==
  /\ call = "none"
  /\ \E s \in FieldSites :
       LET doc == Remove(SampleReport, s.path, s.key) IN
       /\ call' = "from_buf"
       /\ fixture' = [kind |-> "missing", path |-> s.path, key |-> s.key,
                      name |-> s.name, required |-> s.required]
       /\ input' = doc
       /\ output' = from_buf(doc)

\* from_buf on the report with null in one top-level field
FromBufNull ==
  /\ call = "none"
  /\ \E s \in {x \in FieldSites : x.path = <<>>} :
       LET doc == Put(SampleReport, <<s.key>>, JNull) IN
       /\ call' = "from_buf"
       /\ fixture' = [kind |-> "null", key |-> s.key]
       /\ input' = doc
       /\ output' = from_buf(doc)

\* from_buf on the report with some content in one canary field
FromBufCanary ==
  /\ call = "none"
  /\ \E s \in CanarySites, content \in CanaryContents :
       LET doc == Put(SampleReport, s.path, content) IN
       /\ call' = "from_buf"
       /\ fixture' = [kind |-> "canary", path |-> s.path, content |-> content,
                      listShaped |-> s.k = "list"]
       /\ input' = doc
       /\ output' = from_buf(doc)

\* from_buf on the report whose first call gives its return value under the
\* key "return", under the key "return_", under both or under neither
FromBufCallReturn ==
  /\ call = "none"
  /\ \E r \in ReturnTexts, keys \in SUBSET {"return", "return_"} :
       LET bare == Without(SampleCall, "return")
           c1 == IF "return" \in keys THEN Put(bare, <<"return">>, JStr(r.text)) ELSE bare
           c2 == IF "return_" \in keys THEN Put(c1, <<"return_">>, JStr(<<"f", "f">>)) ELSE c1
           doc == Put(SampleReport, CallPath, c2)
       IN /\ call' = "from_buf"
          /\ fixture' = [kind |-> "call_return", keys |-> keys, ret |-> r]
          /\ input' = doc
          /\ output' = from_buf(doc)

\* from_buf on the report whose first process has calls with the given ids
FromBufCalls ==
  /\ call = "none"
  /\ \E ids \in SeqsUpTo({0, 1}, MaxCalls) :
       LET doc == Put(SampleReport, CallsPath, JList([i \in DOMAIN ids |-> CallWithId(ids[i])])) IN
       /\ call' = "from_buf"
       /\ fixture' = [kind |-> "calls", ids |-> ids]
       /\ input' = doc
       /\ output' = from_buf(doc)

\* from_buf on the report whose enhanced event carries the given payload keys
FromBufEvent ==
  /\ call = "none"
  /\ \E keys \in SUBSET EventKeys, fromNull \in BOOLEAN :
       LET doc == Put(SampleReport, EventDataPath, EventObject(keys, fromNull)) IN
       /\ call' = "from_buf"
       /\ fixture' = [kind |-> "event", keys |-> keys]
       /\ input' = doc
       /\ output' = from_buf(doc)

\* from_buf on the report whose import table holds the given groups, as an
\* array or as an object keyed by DLL name
FromBufImports ==
  /\ call = "none"
  /\ \E groups \in SeqsUpTo(SeqsUpTo(SymbolPool, 2), MaxGroups), shape \in {"list", "dict"} :
       LET table == IF shape = "list" THEN ImportsAsList(groups) ELSE ImportsAsDict(groups)
           doc == Put(SampleReport, ImportsPath, table)
       IN /\ call' = "from_buf"
          /\ fixture' = [kind |-> "imports", groups |-> groups, shape |-> shape]
          /\ input' = doc
          /\ output' = from_buf(doc)

\* the call returns; the decoder keeps nothing from it
Return ==
  /\ call # "none"
  /\ call' = "none"
  /\ fixture' = [kind |-> "none"]
  /\ input' = JNull
  /\ output' = Ok(JNull)

Next ==
  \/ ValidateHexIntNative
  \/ ValidateHexIntDigits
  \/ ValidateHexIntText
  \/ ValidateHexIntOther
  \/ ValidateArgument
  \/ ModelValidateExtraKey
  \/ FromBufSample
  \/ FromBufExtraKey
  \/ FromBufMissing
  \/ FromBufNull
  \/ FromBufCanary
  \/ FromBufCallReturn
  \/ FromBufCalls
  \/ FromBufEvent
  \/ FromBufImports
  \/ Return

Spec == Init /\ [][Next]_vars

\* ------------------------------------------------------------------------
\* Properties
\* ------------------------------------------------------------------------
Last(s) == s[Len(s)]

\* a occurs in b as a subsequence (b may carry the tags of union variants)
RECURSIVE IsSubseq(_, _)
IsSubseq(a, b) ==
  IF a = <<>> THEN TRUE
  ELSE IF b = <<>> THEN FALSE
  ELSE IF Head(a) = Head(b) THEN IsSubseq(Tail(a), Tail(b))
  ELSE IsSubseq(a, Tail(b))

\* C1: decoding an object of any entity class, at any depth of the report,
\* fails when the object has a key that no declared field claims, with an
\* unknown-field error at that key; extra_debug_field inside target.file
\* fails at target.file.extra_debug_field and no report is returned.
C1_UnknownKeyFails ==
  fixture.kind = "extra_key" =>
    /\ ~output.ok
    /\ output.val = JNull
    /\ \E e \in output.errs :
         /\ e.type = "extra_forbidden"
         /\ Last(e.loc) = fixture.key
         /\ IsSubseq(fixture.path \o <<fixture.key>>, e.loc)
    /\ (call = "from_buf" /\ fixture.path = <<"target", "file">>
          /\ fixture.key = "extra_debug_field")
         => [type |-> "extra_forbidden",
             loc |-> <<"target", "file", "extra_debug_field">>] \in output.errs

C1_Witness ==
  /\ call = "from_buf"
  /\ fixture.kind = "extra_key"
  /\ fixture.path = <<"target", "file">>
  /\ fixture.key = "extra_debug_field"
  /\ "extra_debug_field" \in DOMAIN Get(input, <<"target", "file">>).v
  /\ ~output.ok

\* C2: a canary field (TODO, ListTODO, DictTODO) decodes only when its
\* content is null or, for a list-shaped canary, the empty list.
C2_CanaryOnlyNullOrEmpty ==
  (fixture.kind = "canary" /\ output.ok) =>
    \/ fixture.content = JNull
    \/ fixture.listShaped /\ fixture.content = JList(<<>>)

\* C3: through the hex-int decoder the base-16 digit string of n >= 0 decodes
\* to n, and the native integer n decodes to n.
C3_HexIntRoundTrip ==
  fixture.kind \in {"hex_digits", "native_int"} => output = Ok(JInt(fixture.n))

C3_Witness ==
  /\ fixture.kind = "hex_digits"
  /\ fixture.n = 255
  /\ input = JStr(<<"f", "f">>)
  /\ output.val = JInt(255)

\* C4: a hex-int input that is neither an integer nor a string (boolean,
\* float, null, array, object) is a decode failure and is never returned.
C4_OtherTypesFail ==
  fixture.kind = "hex_other" => ~validate_hex_int(input).ok /\ ~output.ok

\* C5: Argument.value takes the first declared variant that matches: what the
\* hex-int variant decodes becomes that integer, a string stays a string only
\* when it is not base 16, and an input no variant matches fails.
C5_ArgumentValueFirstVariant ==
  fixture.kind = "argument" =>
    LET v == fixture.value
        asInt == Validate(HexInt, v, FALSE, <<>>)
        asStr == Validate(TStr, v, FALSE, <<>>)
    IN /\ asInt.ok => output.ok /\ output.val.v.value = asInt.val
       /\ (v.t = "int") => output.ok /\ output.val.v.value = v
       /\ (v.t = "str" /\ PyIntParse(v.v, 16).ok)
            => output.ok /\ output.val.v.value = JInt(PyIntParse(v.v, 16).val)
       /\ (v.t = "str" /\ ~PyIntParse(v.v, 16).ok)
            => output.ok /\ output.val.v.value = v
       /\ (output.ok /\ output.val.v.value.t = "str") => ~asInt.ok
       /\ (~asInt.ok /\ ~asStr.ok) => ~output.ok

C5_Witness ==
  /\ fixture.kind = "argument"
  /\ fixture.value = JStr(<<"f", "f">>)
  /\ output.ok
  /\ output.val.v.value = JInt(255)

\* C6: an import table given as an array of per-DLL groups and the same
\* groups given as an object keyed by DLL name both decode, to entries with
\* the same (name, address) pairs per symbol, and each keeps its input shape.
DecodedPairs(group) ==
  [i \in DOMAIN group.v.imports.v |->
     <<group.v.imports.v[i].v.name.v, group.v.imports.v[i].v.address.v>>]

ExpectedPairs(syms) == [i \in DOMAIN syms |-> <<syms[i].name, syms[i].value>>]

ImportsType == (CHOOSE i \in DOMAIN PE : PE[i].name = "imports")

C6_ImportsBothShapes ==
  fixture.kind = "imports" =>
    LET groups == fixture.groups
        listed == Validate(PE[ImportsType].type, ImportsAsList(groups), FALSE, <<>>)
        keyed == Validate(PE[ImportsType].type, ImportsAsDict(groups), FALSE, <<>>)
    IN /\ output.ok
       /\ listed.ok /\ listed.val.t = "list"
       /\ keyed.ok /\ keyed.val.t = "dict"
       /\ Get(output.val, ImportsPath) = IF fixture.shape = "list" THEN listed.val ELSE keyed.val
       /\ Len(listed.val.v) = Len(groups)
       /\ DOMAIN keyed.val.v = {DllKeys[i] : i \in DOMAIN groups}
       /\ \A i \in DOMAIN groups :
            /\ DecodedPairs(listed.val.v[i]) = ExpectedPairs(groups[i])
            /\ DecodedPairs(keyed.val.v[DllKeys[i]]) = DecodedPairs(listed.val.v[i])

C6_Witness ==
  /\ fixture.kind = "imports"
  /\ fixture.shape = "dict"
  /\ Len(fixture.groups) = 2
  /\ Len(fixture.groups[1]) = 2
  /\ output.ok
  /\ Get(output.val, ImportsPath).t = "dict"

\* C7: decoding fails when a required field is absent and does not fail when
\* an optional field is absent (it is then unset); a returned report has
\* target, behavior and CAPE present and not null, and a document without
\* one of the three is never decoded.
TopRequired == {"target", "behavior", "CAPE"}

C7_RequiredAndOptional ==
  /\ fixture.kind = "missing" =>
       IF fixture.required
       THEN /\ ~output.ok
            /\ \E e \in output.errs :
                 /\ e.type = "missing"
                 /\ IsSubseq(fixture.path \o <<fixture.key>>, e.loc)
       ELSE /\ output.ok
            /\ Get(output.val, fixture.path).v[fixture.name] = JNull
            /\ fixture.name \notin Get(output.val, fixture.path).fields_set
  /\ (call = "from_buf" /\ output.ok) =>
       \A key \in TopRequired :
         /\ key \in DOMAIN input.v
         /\ input.v[key] # JNull
         /\ key \in output.val.fields_set
         /\ output.val.v[key].t = "model"
  /\ (call = "from_buf" /\ input.t = "obj"
        /\ \E key \in TopRequired : key \notin DOMAIN input.v \/ input.v[key] = JNull)
       => ~output.ok /\ output.val = JNull

C7_Witness ==
  /\ fixture.kind = "missing"
  /\ fixture.path = <<>>
  /\ fixture.key = "behavior"
  /\ "behavior" \notin DOMAIN input.v
  /\ ~output.ok

\* an absent optional field leaves the report decodable
C7_WitnessOptional ==
  /\ fixture.kind = "missing"
  /\ fixture.path = <<>>
  /\ fixture.key = "static"
  /\ output.ok

\* C8: a Call's return value is read from the key "return" only and
\* hex-decoded onto return_ ("0x1" gives 1); a Call giving it under the key
\* return_ does not decode: "return" is missing and return_ is unknown.
C8_ReturnAlias ==
  fixture.kind = "call_return" =>
    /\ fixture.keys = {"return"} =>
         /\ output.ok
         /\ Get(output.val, CallPath).v.return_ = JInt(fixture.ret.value)
         /\ "return" \notin DOMAIN Get(output.val, CallPath).v
    /\ "return_" \in fixture.keys =>
         /\ ~output.ok
         /\ [type |-> "extra_forbidden", loc |-> CallPath \o <<"return_">>] \in output.errs
    /\ "return" \notin fixture.keys =>
         /\ ~output.ok
         /\ [type |-> "missing", loc |-> CallPath \o <<"return">>] \in output.errs

C8_Witness ==
  /\ fixture.kind = "call_return"
  /\ fixture.keys = {"return"}
  /\ Get(input, CallPath).v["return"] = JStr(<<"0", "x", "1">>)
  /\ output.ok
  /\ Get(output.val, CallPath).v.return_ = JInt(1)

C8_WitnessInternalName ==
  /\ fixture.kind = "call_return"
  /\ fixture.keys = {"return_"}
  /\ ~output.ok

\* C9 as claimed: in a decoded report the ids of the calls of one process are
\* pairwise distinct.
DecodedCallIds(process) == [i \in DOMAIN process.v.calls.v |-> process.v.calls.v[i].v.id.v]

C9_CallIdsDistinct ==
  (call = "from_buf" /\ output.ok) =>
    \A p \in Range(output.val.v.behavior.v.processes.v) :
      \A i, j \in DOMAIN DecodedCallIds(p) :
        i # j => DecodedCallIds(p)[i] # DecodedCallIds(p)[j]

\* C9 amended: the id of each call is decoded as the integer given, in input
\* order, and nothing compares the ids of one process: a report whose calls
\* repeat an id decodes.
C9_CallIdsVerbatim ==
  fixture.kind = "calls" =>
    /\ output.ok
    /\ DecodedCallIds(Get(output.val, <<"behavior", "processes", "0">>)) = fixture.ids

C9_Witness ==
  /\ fixture.kind = "calls"
  /\ Len(fixture.ids) = 2
  /\ fixture.ids[1] = fixture.ids[2]
  /\ output.ok
  /\ Len(Get(output.val, CallsPath).v) = 2

\* C10: at most one of EventFileData, EventRegData and EventMoveData accepts
\* an object, the one whose discriminating key (file, regkey, from) it
\* carries, whatever the order the variants are tried in; an object with two
\* discriminating keys or with none decodes under no variant.
EventVariants == <<"EventFileData", "EventRegData", "EventMoveData">>
Discriminator == [EventFileData |-> "file", EventRegData |-> "regkey", EventMoveData |-> "from"]

C10_EventShapesExclusive ==
  fixture.kind = "event" =>
    LET data == Get(input, EventDataPath)
        accepting == {cls \in Range(EventVariants) : Validate(Ref(cls), data, FALSE, <<>>).ok}
        present == {cls \in Range(EventVariants) : Discriminator[cls] \in fixture.keys}
    IN /\ Cardinality(accepting) <= 1
       /\ accepting \subseteq present
       /\ output.ok <=> Cardinality(accepting) = 1
       /\ output.ok => Get(output.val, EventDataPath).cls \in accepting
       /\ Cardinality(present) # 1 => ~output.ok
       /\ \A p \in Permutations(DOMAIN EventVariants) :
            LET r == Validate(Union([i \in DOMAIN EventVariants |-> Ref(EventVariants[p[i]])]),
                              data, FALSE, <<>>)
            IN /\ r.ok = output.ok
               /\ r.ok => r.val = Get(output.val, EventDataPath)

C10_Witness ==
  /\ fixture.kind = "event"
  /\ fixture.keys = {"from", "to"}
  /\ output.ok
  /\ Get(output.val, EventDataPath).cls = "EventMoveData"

C10_WitnessNoVariant ==
  /\ fixture.kind = "event"
  /\ fixture.keys = {"to"}
  /\ ~output.ok
====
